---- MODULE Spec2Model ----
(***************************************************************************)
(* TCP transport client of openvpn3 (openvpn/transport/client/tcpcli.hpp). *)
(*                                                                         *)
(* The client (TCPTransport::Client) is modelled from its source.  Its     *)
(* collaborators that are not part of the sources at hand -- the stream    *)
(* link (openvpn/transport/tcplink.hpp) and the asio resolver -- are       *)
(* modelled from the design document and from the asio contract:           *)
(*   - an async_resolve is an operation that later completes with a list   *)
(*     of endpoints or with an error; cancel() makes every operation that  *)
(*     has not completed yet complete with operation_aborted, and leaves   *)
(*     a completion that is already queued for delivery as it is, so the   *)
(*     handler of a cancelled operation may see any of the three outcomes; *)
(*   - a link calls back into the client only while it is live, and it is  *)
(*     kept alive by its pending I/O, not only by the client's pointer.    *)
(* The parent's callbacks are the last statement of every client handler,  *)
(* so a call the parent makes from inside a callback is the same as that   *)
(* call made right after the handler's step.                               *)
(***************************************************************************)
EXTENDS Naturals, Sequences, FiniteSets

\* ---- bounds of the model ------------------------------------------------
MaxResolves == 2        \* async_resolve operations issued by one client
MaxExtraSends == 1      \* packets the open links accept beyond one full queue
MaxRecvs == 1           \* inbound packets delivered to one client
MaxPackets == 2         \* packets of any kind the peer writes on one connection
MaxChunk == 4           \* bytes one read of the socket returns at most

\* ---- program constants --------------------------------------------------
DefaultSendQueueMax == 64
DefaultFreeListMax == 8

\* values of send_queue_max_size configured besides the default
QueueSizes == {1, 2}

\* values of free_list_max_size configured besides the default
FreeListSizes == {1, 2}

\* payloads the peer sends; a payload may look like a length prefix
Payloads == { <<>>, <<1>>, <<0, 0>> }
Filler == <<>>

NoLink == 0
NoEndpoint == "unset"
ServerHost == "vpn.example.com"

\* results a successful resolution can produce (never empty)
ResolveResults == { <<"e1", "e2">> }

VARIABLES
  config,           \* ClientConfig: server_host, send_queue_max_size, free_list_max_size
  impl,             \* Client::impl: NoLink or the id of the attached link
  halt,             \* Client::halt
  server_endpoint,  \* Client::server_endpoint
  stats,            \* config->stats: the RESOLVE_ERROR counter
  ops,              \* the resolver's operations, in the order they were issued
  links,            \* every LinkImpl this client constructed, by id
  parent,           \* what the parent was told, in order
  destroyed,        \* ~Client has run
  stopCalled,       \* the owner has called stop() (history only)
  last              \* what the step just taken returned, when it was a send

vars == <<config, impl, halt, server_endpoint, stats, ops, links, parent, destroyed,
          stopCalled, last>>

LinkIds == 1..MaxResolves

\* ClientConfig::ClientConfig: the defaults of a fresh configuration
ClientConfig ==
  [server_host |-> ServerHost,
   send_queue_max_size |-> DefaultSendQueueMax,
   free_list_max_size |-> DefaultFreeListMax]

\* the client's fields as one value
Cur ==
  [impl |-> impl, halt |-> halt, server_endpoint |-> server_endpoint,
   stats |-> stats, ops |-> ops, links |-> links, parent |-> parent]

Set(c) ==
  /\ impl' = c.impl
  /\ halt' = c.halt
  /\ server_endpoint' = c.server_endpoint
  /\ stats' = c.stats
  /\ ops' = c.ops
  /\ links' = c.links
  /\ parent' = c.parent

\* ---- the link (tcplink.hpp, modelled from the design document) -----------
\* outbound: queue, wire, nacc.  inbound: the bytes the peer has framed and
\* the socket has not yet returned (stream), the read buffer (rbuf), the
\* packets handed to the client (handed, nrecv of them), the size of the
\* free list (free) and the buffers handed out and not yet returned (out).
\* sent is what the peer wrote on this connection (history only).
NoLinkRec ==
  [st |-> "none", qmax |-> 0, fmax |-> 0, ep |-> NoEndpoint,
   queue |-> <<>>, wire |-> <<>>, nacc |-> 0, nrecv |-> 0, stops |-> 0, stale |-> FALSE,
   sent |-> <<>>, stream |-> <<>>, rbuf |-> <<>>, handed |-> <<>>, free |-> 0, out |-> 0]

\* Link::Link followed by Link::start
LinkNew(ep, send_queue_max_size, free_list_max_size) ==
  [NoLinkRec EXCEPT !.st = "live", !.qmax = send_queue_max_size,
                    !.fmax = free_list_max_size, !.ep = ep]

\* Link::send: TRUE iff the packet is accepted
LinkSendOk(lk) == lk.st = "live" /\ Len(lk.queue) < lk.qmax

LinkSend(lk, buf) ==
  IF LinkSendOk(lk)
    THEN [lk EXCEPT !.queue = Append(@, buf), !.nacc = @ + 1]
    ELSE lk

\* the buffer handed to Link::send, after the call: an accepted packet is
\* moved into the queue and the caller's buffer is left empty
EmptyBuf == 0

LinkSendBuf(lk, buf) == IF LinkSendOk(lk) THEN EmptyBuf ELSE buf

\* a framer whose length prefix counts its own two bytes
Frame_CountsPrefix(pkt) == <<(Len(pkt) + 2) \div 256, (Len(pkt) + 2) % 256>> \o pkt

\* the framing rule: a packet is written behind its length, 16 bits, high
\* byte first
Frame(pkt) == <<Len(pkt) \div 256, Len(pkt) % 256>> \o pkt

\* the read buffer starts with a complete frame
FrameLen(buf) == buf[1] * 256 + buf[2]
HasPacket(buf) == Len(buf) >= 2 /\ Len(buf) >= 2 + FrameLen(buf)
FirstPacket(buf) == SubSeq(buf, 3, 2 + FrameLen(buf))
AfterFirst(buf) == SubSeq(buf, 3 + FrameLen(buf), Len(buf))

\* the socket returns the next n bytes, which are added to the read buffer
LinkRead(lk, n) ==
  [lk EXCEPT !.rbuf = @ \o SubSeq(lk.stream, 1, n),
             !.stream = SubSeq(@, n + 1, Len(@))]

\* a buffer for the next packet: from the free list if it has one, else fresh
LinkTake(lk) ==
  [lk EXCEPT !.free = IF @ > 0 THEN @ - 1 ELSE 0, !.out = @ + 1, !.nrecv = @ + 1]

\* a consumed buffer comes back: kept if the free list is below its bound,
\* discarded otherwise
LinkGive(lk) ==
  [lk EXCEPT !.free = IF @ < lk.fmax THEN @ + 1 ELSE @, !.out = @ - 1]

\* the first complete packet leaves the read buffer in a buffer of its own
LinkExtract(lk) ==
  [LinkTake(lk) EXCEPT !.rbuf = AfterFirst(@), !.handed = Append(@, FirstPacket(lk.rbuf))]

\* a link whose socket is released: its queue, read buffer and free list are
\* cleared, and the byte streams of the closed connection are no longer part
\* of the state
LinkClosed(lk, st) ==
  [NoLinkRec EXCEPT !.st = st, !.stops = lk.stops, !.stale = lk.stale]

\* Link::stop: cancel the I/O, release the socket, clear queue and free list
LinkStop(lk) ==
  [LinkClosed(lk, "stopped") EXCEPT !.stops = @ + 1]

\* ---- the resolver --------------------------------------------------------
\* resolver.async_resolve(query, handler)
async_resolve(c) ==
  [c EXCEPT !.ops = Append(@, "pending")]

\* resolver.cancel()
cancel(os) ==
  [i \in DOMAIN os |-> IF os[i] = "pending" THEN "cancelled" ELSE os[i]]

\* the outcomes the handler of an operation may be called with
Outcomes(op) ==
  IF op = "pending" THEN {"ok", "fail"}
  ELSE IF op = "cancelled" THEN {"ok", "fail", "aborted"}
  ELSE {}

\* ---- the client ----------------------------------------------------------
\* marks the links that existed when stop_ ran (history only)
MarkStale(c) ==
  [c EXCEPT !.links = [l \in DOMAIN @ |-> IF @[l].st # "none" THEN [@[l] EXCEPT !.stale = TRUE] ELSE @[l]]]

\* stop_ that stops the link and keeps the pointer to it
stop_KeepsImpl(c) ==
  LET c1 == IF c.impl # NoLink
              THEN [c EXCEPT !.links[c.impl] = LinkStop(@)]
              ELSE c
      c2 == [c1 EXCEPT !.ops = cancel(@)]
  IN  MarkStale([c2 EXCEPT !.halt = TRUE])

\* Client::stop_
stop_(c) ==
  LET c1 == IF c.impl # NoLink
              THEN [c EXCEPT !.links[c.impl] = LinkStop(@), !.impl = NoLink]
              ELSE c
      c2 == [c1 EXCEPT !.ops = cancel(@)]
  IN  MarkStale([c2 EXCEPT !.halt = TRUE])

\* Client::stop
stop(c) == stop_(c)

\* Client::start
start(c) ==
  IF c.impl = NoLink
    THEN async_resolve([c EXCEPT !.halt = FALSE])
    ELSE c

\* Client::send: the client after the call
send(c, buf) ==
  IF c.impl # NoLink
    THEN [c EXCEPT !.links[c.impl] = LinkSend(@, buf)]
    ELSE c

\* send whose else branch returns true
sendRet_ElseTrue(c) ==
  IF c.impl # NoLink THEN LinkSendOk(c.links[c.impl]) ELSE TRUE

sendRet(c) ==
  IF c.impl # NoLink THEN LinkSendOk(c.links[c.impl]) ELSE FALSE

\* send_const that hands an empty buffer to the link instead of the copy
send_const_NoCopy(c, cbuf) ==
  IF c.impl # NoLink
    THEN LET buf == 0
         IN  [c EXCEPT !.links[c.impl] = LinkSend(@, buf)]
    ELSE c

\* Client::send_const: hands a copy of the caller's buffer to the link
send_const(c, cbuf) ==
  IF c.impl # NoLink
    THEN LET buf == cbuf
         IN  [c EXCEPT !.links[c.impl] = LinkSend(@, buf)]
    ELSE c

send_constRet(c) ==
  IF c.impl # NoLink THEN LinkSendOk(c.links[c.impl]) ELSE FALSE

\* Client::send: the caller's buffer after the call
sendBuf(c, buf) ==
  IF c.impl # NoLink THEN LinkSendBuf(c.links[c.impl], buf) ELSE buf

\* send_const that hands the caller's buffer itself to the link
send_constBuf_NoCopy(c, cbuf) ==
  IF c.impl # NoLink THEN LinkSendBuf(c.links[c.impl], cbuf) ELSE cbuf

\* Client::send_const: the caller's buffer after the call; the link is
\* handed the local copy buf, and what it leaves of it is dropped
send_constBuf(c, cbuf) ==
  IF c.impl # NoLink
    THEN LET buf == cbuf
             left == LinkSendBuf(c.links[c.impl], buf)
         IN  cbuf
    ELSE cbuf

\* ---- the parent ----------------------------------------------------------
\* what the parent finds when it looks at the client from inside a callback:
\* the halt flag, the attached link and whether it is started, the
\* RESOLVE_ERROR counter, and what a transport_send made there returns
Seen(c) ==
  [halt |-> c.halt, impl |-> c.impl,
   live |-> c.impl # NoLink /\ c.links[c.impl].st = "live",
   stats |-> c.stats, send |-> sendRet(c)]

\* the properties look at the client from inside transport_connected and
\* transport_error; what transport_recv finds is not recorded
Unseen ==
  [halt |-> FALSE, impl |-> NoLink, live |-> FALSE, stats |-> 0, send |-> FALSE]

Event(c, type, kind, cause, pkt) ==
  [type |-> type, kind |-> kind, host |-> IF type = "error" THEN config.server_host ELSE "",
   cause |-> cause, pkt |-> pkt, seen |-> IF type = "recv" THEN Unseen ELSE Seen(c)]

transport_connected(c) ==
  [c EXCEPT !.parent = Append(@, Event(c, "connected", "", "", <<>>))]

transport_recv(c, pkt) ==
  [c EXCEPT !.parent = Append(@, Event(c, "recv", "", "", pkt))]

transport_error(c, kind, cause) ==
  [c EXCEPT !.parent = Append(@, Event(c, "error", kind, cause, <<>>))]

\* tcp_read_handler that keeps an empty packet from the parent
tcp_read_handler_SkipsEmpty(c, l, pkt) ==
  IF pkt = <<>> THEN c ELSE transport_recv(c, pkt)

\* Client::tcp_read_handler, called by link l with one packet
tcp_read_handler(c, l, pkt) == transport_recv(c, pkt)

\* tcp_error_handler that tells the parent before it stops the client
tcp_error_handler_NotifyFirst(c, l, error) ==
  stop(transport_error(c, "transport", error))

\* Client::tcp_error_handler, called by link l
tcp_error_handler(c, l, error) ==
  transport_error(stop(c), "transport", error)

\* the link constructed with the two bounds in each other's place
Attach_SwappedBounds(c, i, endpoint_iterator) ==
  LET ep == Head(endpoint_iterator)
      c1 == [c EXCEPT !.server_endpoint = ep]
      c2 == [c1 EXCEPT !.links[i] = LinkNew(ep, config.free_list_max_size,
                                            config.send_queue_max_size),
                       !.impl = i]
  IN  transport_connected(c2)

\* the link constructed with the queue bound for both bounds
Attach_QueueBoundTwice(c, i, endpoint_iterator) ==
  LET ep == Head(endpoint_iterator)
      c1 == [c EXCEPT !.server_endpoint = ep]
      c2 == [c1 EXCEPT !.links[i] = LinkNew(ep, config.send_queue_max_size,
                                            config.send_queue_max_size),
                       !.impl = i]
  IN  transport_connected(c2)

\* the link bound to the last resolved endpoint instead of the first
Attach_LastEndpoint(c, i, endpoint_iterator) ==
  LET ep == endpoint_iterator[Len(endpoint_iterator)]
      c1 == [c EXCEPT !.server_endpoint = ep]
      c2 == [c1 EXCEPT !.links[i] = LinkNew(ep, config.send_queue_max_size,
                                            config.free_list_max_size),
                       !.impl = i]
  IN  transport_connected(c2)

\* the parent notified before the link is constructed and started
Attach_NotifyFirst(c, i, endpoint_iterator) ==
  LET ep == Head(endpoint_iterator)
      c1 == transport_connected([c EXCEPT !.server_endpoint = ep])
  IN  [c1 EXCEPT !.links[i] = LinkNew(ep, config.send_queue_max_size,
                                      config.free_list_max_size),
                 !.impl = i]

\* Client::post_start_ without error: attach a link to the first endpoint.
\* impl.reset(new LinkImpl) only drops the client's pointer to a link that
\* was still attached: that link is not stopped and stays live.
Attach(c, i, endpoint_iterator) ==
  LET ep == Head(endpoint_iterator)
      c1 == [c EXCEPT !.server_endpoint = ep]
      c2 == [c1 EXCEPT !.links[i] = LinkNew(ep, config.send_queue_max_size,
                                            config.free_list_max_size),
                       !.impl = i]
  IN  transport_connected(c2)

\* the error branch that stops the client and tells the parent nothing
ResolveFailed_Silent(c, cause) ==
  LET c1 == [c EXCEPT !.stats = @ + 1]
  IN  stop(c1)

\* the error branch without the stats->error call
ResolveFailed_NoCount(c, cause) ==
  transport_error(stop(c), "resolve", cause)

\* Client::post_start_ with an error
ResolveFailed(c, cause) ==
  LET c1 == [c EXCEPT !.stats = @ + 1]
  IN  transport_error(stop(c1), "resolve", cause)

\* Client::post_start_, the handler of resolve operation i, called with
\* error ("ok" for none) and, with no error, the resolved endpoints
post_start_(c, i, error, endpoint_iterator) ==
  LET c0 == [c EXCEPT !.ops[i] = "done"]
  IN  IF ~c.halt
        THEN IF error = "ok"
               THEN Attach(c0, i, endpoint_iterator)
               ELSE ResolveFailed(c0, error)
        ELSE c0

\* ---- initial state -------------------------------------------------------
\* Client::Client on a configuration whose queue holds a few packets
Init ==
  /\ config \in { [ClientConfig EXCEPT !.send_queue_max_size = q] :
                    q \in {n \in QueueSizes : n > 1} }
  /\ impl = NoLink
  /\ halt = FALSE
  /\ server_endpoint = NoEndpoint
  /\ stats = 0
  /\ ops = <<>>
  /\ links = [l \in LinkIds |-> NoLinkRec]
  /\ parent = <<>>
  /\ destroyed = FALSE
  /\ stopCalled = FALSE
  /\ last = [op |-> "other", ret |-> FALSE, arg |-> EmptyBuf, buf |-> EmptyBuf]

\* a step that is no send, and a send called with buffer arg that returned
\* ret and left the caller's buffer as buf
Last(op, ret) == [op |-> op, ret |-> ret, arg |-> EmptyBuf, buf |-> EmptyBuf]
LastSend(op, ret, arg, buf) == [op |-> op, ret |-> ret, arg |-> arg, buf |-> buf]

RECURSIVE Sum(_, _)
Sum(f, S) == IF S = {} THEN 0 ELSE LET x == CHOOSE y \in S : TRUE IN f[x] + Sum(f, S \ {x})

\* packets the client's open links accepted, and packets delivered to the parent
TotalAccepted == Sum([l \in LinkIds |-> links[l].nacc], LinkIds)
TotalRecv == Cardinality({k \in DOMAIN parent : parent[k].type = "recv"})

\* the caller's next packet: packets are told apart by the order in which
\* the attached link accepted them
NextBuf == IF impl # NoLink THEN links[impl].nacc + 1 ELSE 1

\* ---- steps ---------------------------------------------------------------
\* the owner calls start()
Start ==
  /\ ~destroyed
  /\ impl = NoLink => Len(ops) < MaxResolves
  /\ Set(start(Cur))
  /\ last' = Last("other", FALSE)
  /\ UNCHANGED <<config, destroyed, stopCalled>>

\* the owner calls stop()
Stop ==
  /\ ~destroyed
  /\ Set(stop(Cur))
  /\ stopCalled' = TRUE
  /\ last' = Last("other", FALSE)
  /\ UNCHANGED <<config, destroyed>>

\* the owner releases the client: ~Client
Destroy ==
  /\ ~destroyed
  /\ Set(stop_(Cur))
  /\ destroyed' = TRUE
  /\ last' = Last("other", FALSE)
  /\ UNCHANGED <<config, stopCalled>>

\* the owner calls transport_send(buf)
TransportSend ==
  /\ ~destroyed
  /\ sendRet(Cur) => TotalAccepted < config.send_queue_max_size + MaxExtraSends
  /\ Set(send(Cur, NextBuf))
  /\ last' = LastSend("transport_send", sendRet(Cur), NextBuf, sendBuf(Cur, NextBuf))
  /\ UNCHANGED <<config, destroyed, stopCalled>>

\* the owner calls transport_send_const(buf)
TransportSendConst ==
  /\ ~destroyed
  /\ send_constRet(Cur) => TotalAccepted < config.send_queue_max_size + MaxExtraSends
  /\ Set(send_const(Cur, NextBuf))
  /\ last' = LastSend("transport_send_const", send_constRet(Cur), NextBuf,
                      send_constBuf(Cur, NextBuf))
  /\ UNCHANGED <<config, destroyed, stopCalled>>

\* the execution context calls the handler of operation i with outcome error
DeliverResolveWith(i, error) ==
  /\ i \in DOMAIN ops
  /\ error \in Outcomes(ops[i])
  /\ \E eps \in ResolveResults : Set(post_start_(Cur, i, error, eps))
  /\ last' = Last("other", FALSE)
  /\ UNCHANGED <<config, destroyed, stopCalled>>

DeliverResolve(i) == \E error \in {"ok", "fail", "aborted"} : DeliverResolveWith(i, error)

\* link l completes the write of the head of its queue
LinkWriteDone(l) ==
  /\ links[l].st = "live"
  /\ links[l].queue # <<>>
  /\ links' = [links EXCEPT ![l].wire = Append(@, Head(links[l].queue)),
                            ![l].queue = Tail(@)]
  /\ last' = Last("other", FALSE)
  /\ UNCHANGED <<config, impl, halt, server_endpoint, stats, ops, parent, destroyed, stopCalled>>

\* link l deframes one inbound packet and hands it to the client, which
\* has consumed the buffer when the callback returns
LinkRecv(l) ==
  /\ links[l].st = "live"
  /\ TotalRecv < MaxRecvs
  /\ LET c1 == [Cur EXCEPT !.links[l] = LinkTake(@)]
         c2 == tcp_read_handler(c1, l, <<l, links[l].nrecv + 1>>)
     IN  Set([c2 EXCEPT !.links[l] = LinkGive(@)])
  /\ last' = Last("other", FALSE)
  /\ UNCHANGED <<config, destroyed, stopCalled>>

\* link l hits a socket error and reports it to the client; it makes no
\* further callback afterwards
LinkError(l) ==
  /\ links[l].st = "live"
  /\ LET c1 == tcp_error_handler(Cur, l, "reset")
     IN  Set(IF c1.links[l].st = "live" THEN [c1 EXCEPT !.links[l] = LinkClosed(@, "failed")] ELSE c1)
  /\ last' = Last("other", FALSE)
  /\ UNCHANGED <<config, destroyed, stopCalled>>

Next ==
  \/ Start
  \/ Stop
  \/ Destroy
  \/ TransportSend
  \/ TransportSendConst
  \/ \E i \in 1..MaxResolves : DeliverResolve(i)
  \/ \E l \in LinkIds : LinkWriteDone(l)
  \/ \E l \in LinkIds : LinkRecv(l)
  \/ \E l \in LinkIds : LinkError(l)

Spec == Init /\ [][Next]_vars

\* ---- an owner that calls start() once, on any configuration -------------
InitOnce ==
  /\ config \in { [ClientConfig EXCEPT !.send_queue_max_size = q] :
                    q \in QueueSizes \cup {ClientConfig.send_queue_max_size} }
  /\ impl = NoLink
  /\ halt = FALSE
  /\ server_endpoint = NoEndpoint
  /\ stats = 0
  /\ ops = <<>>
  /\ links = [l \in LinkIds |-> NoLinkRec]
  /\ parent = <<>>
  /\ destroyed = FALSE
  /\ stopCalled = FALSE
  /\ last = [op |-> "other", ret |-> FALSE, arg |-> EmptyBuf, buf |-> EmptyBuf]

StartOnce ==
  /\ ops = <<>>
  /\ Start

NextOnce ==
  \/ StartOnce
  \/ Stop
  \/ Destroy
  \/ TransportSend
  \/ TransportSendConst
  \/ \E i \in 1..MaxResolves : DeliverResolve(i)
  \/ \E l \in LinkIds : LinkWriteDone(l)
  \/ \E l \in LinkIds : LinkRecv(l)
  \/ \E l \in LinkIds : LinkError(l)

SpecOnce == InitOnce /\ [][NextOnce]_vars

\* ---- the inbound side of the link, byte by byte -------------------------
\* an owner that calls start() once and sends nothing, on a configuration
\* with a small or the default free list; the parent may keep a buffer it
\* was handed for a while
InitLink ==
  /\ config \in { [ClientConfig EXCEPT !.free_list_max_size = f] :
                    f \in FreeListSizes \cup {ClientConfig.free_list_max_size} }
  /\ impl = NoLink
  /\ halt = FALSE
  /\ server_endpoint = NoEndpoint
  /\ stats = 0
  /\ ops = <<>>
  /\ links = [l \in LinkIds |-> NoLinkRec]
  /\ parent = <<>>
  /\ destroyed = FALSE
  /\ stopCalled = FALSE
  /\ last = [op |-> "other", ret |-> FALSE, arg |-> EmptyBuf, buf |-> EmptyBuf]

\* the peer frames one more packet onto the connection of link l: a few
\* packets of any kind, then fillers until the free list can overflow
PeerWrite(l, pkt) ==
  /\ links[l].st = "live"
  /\ \/ Len(links[l].sent) < MaxPackets
     \/ pkt = Filler /\ Len(links[l].sent) <= config.free_list_max_size
  /\ links' = [links EXCEPT ![l].sent = Append(@, pkt),
                            ![l].stream = @ \o Frame(pkt)]
  /\ last' = Last("other", FALSE)
  /\ UNCHANGED <<config, impl, halt, server_endpoint, stats, ops, parent, destroyed, stopCalled>>

\* a read of link l's socket returns n bytes
SocketRead(l, n) ==
  /\ links[l].st = "live"
  /\ n <= Len(links[l].stream)
  /\ links' = [links EXCEPT ![l] = LinkRead(@, n)]
  /\ last' = Last("other", FALSE)
  /\ UNCHANGED <<config, impl, halt, server_endpoint, stats, ops, parent, destroyed, stopCalled>>

\* link l hands the first complete packet of its read buffer to the client
LinkDeliver(l) ==
  /\ links[l].st = "live"
  /\ HasPacket(links[l].rbuf)
  /\ LET c1 == [Cur EXCEPT !.links[l] = LinkExtract(@)]
     IN  Set(tcp_read_handler(c1, l, FirstPacket(links[l].rbuf)))
  /\ last' = Last("other", FALSE)
  /\ UNCHANGED <<config, destroyed, stopCalled>>

\* a buffer that was handed out comes back to link l
BufferReturn(l) ==
  /\ links[l].st = "live"
  /\ links[l].out > 0
  /\ links' = [links EXCEPT ![l] = LinkGive(@)]
  /\ last' = Last("other", FALSE)
  /\ UNCHANGED <<config, impl, halt, server_endpoint, stats, ops, parent, destroyed, stopCalled>>

NextLink ==
  \/ StartOnce
  \/ Stop
  \/ \E i \in 1..MaxResolves : DeliverResolve(i)
  \/ \E l \in LinkIds : \E pkt \in Payloads : PeerWrite(l, pkt)
  \/ \E l \in LinkIds : \E n \in 1..MaxChunk : SocketRead(l, n)
  \/ \E l \in LinkIds : LinkDeliver(l)
  \/ \E l \in LinkIds : BufferReturn(l)
  \/ \E l \in LinkIds : LinkError(l)

SpecLink == InitLink /\ [][NextLink]_vars

\* ---- the same owner under a fair execution context ----------------------
\* io_service.run() calls every completion handler that is due, and the
\* socket completes every write it was given
Fairness ==
  /\ WF_vars(\E i \in 1..MaxResolves : DeliverResolve(i))
  /\ \A l \in LinkIds : WF_vars(LinkWriteDone(l))

SpecOnceFair == SpecOnce /\ Fairness

\* ---- properties ----------------------------------------------------------
ClientVars == <<impl, halt, server_endpoint, stats, parent>>
AllClientVars == <<impl, halt, server_endpoint, stats, ops, links, parent>>

\* an error event received by a parent that finds the client stopped and the
\* RESOLVE_ERROR counter at n
ErrorEvent(kind, cause, n) ==
  [type |-> "error", kind |-> kind, host |-> ServerHost, cause |-> cause, pkt |-> <<>>,
   seen |-> [halt |-> TRUE, impl |-> NoLink, live |-> FALSE, stats |-> n, send |-> FALSE]]

NErrors == Cardinality({k \in DOMAIN parent : parent[k].type = "error"})
NConnected == Cardinality({k \in DOMAIN parent : parent[k].type = "connected"})
HadLinkError == \E k \in DOMAIN parent : parent[k].kind = "transport"
IsSend == TransportSend \/ TransportSendConst
\* a step is a send exactly when last records one after it
SendOps == {"transport_send", "transport_send_const"}

\* C1: a completion (post_start_, tcp_read_handler, tcp_error_handler) that
\* is delivered after stop() has run changes none of impl, halt,
\* server_endpoint and the stats counter, and calls nothing on the parent.
C1_RaceSafety ==
  [][ /\ \A i \in DOMAIN ops :
           (ops[i] = "cancelled" /\ DeliverResolve(i)) => UNCHANGED ClientVars
      /\ \A l \in LinkIds :
           (links[l].stale /\ (LinkRecv(l) \/ LinkError(l))) => UNCHANGED ClientVars
    ]_vars

\* C2: once the halt flag is set it stays set, and from then on the client
\* issues no resolution, attaches no link and tells the parent nothing,
\* whatever is invoked (start() included).
C2_StoppedTerminal ==
  [][ halt => (halt' /\ Len(ops') = Len(ops) /\ impl' = NoLink /\ parent' = parent) ]_vars

\* C3: start() called while a resolution is in flight or a link is attached
\* is a no-op: it issues no second resolution and changes nothing.
C3_StartNoOp ==
  [][ (Start /\ (impl # NoLink \/ \E i \in DOMAIN ops : ops[i] = "pending"))
        => UNCHANGED AllClientVars ]_vars

\* C4: the parent receives transport_error at most once, and never after the
\* owner has called stop().
C4_SingleError ==
  [][ NErrors' <= 1 /\ (stopCalled => NErrors' = NErrors) ]_vars

\* C5: a resolution that completes with an error while the client is not
\* halted adds exactly 1 to RESOLVE_ERROR, leaves the client without a link
\* and halted, gives the parent exactly one resolve error naming the
\* configured host, and issues no further resolution.
C5_ResolveFailure ==
  [][ \A i \in DOMAIN ops : \A error \in {"fail", "aborted"} :
        (~halt /\ DeliverResolveWith(i, error)) =>
          /\ stats' = stats + 1
          /\ impl' = NoLink
          /\ halt'
          /\ parent' = Append(parent, ErrorEvent("resolve", error, stats + 1))
          /\ Len(ops') = Len(ops)
          /\ \A j \in DOMAIN ops' : ops'[j] # "pending"
    ]_vars

\* a resolve error has just been reported on a client that had counted none
C5_Witness ==
  /\ stats = 1
  /\ halt /\ impl = NoLink
  /\ parent # <<>>
  /\ parent[Len(parent)] = ErrorEvent("resolve", "fail", 1)

\* C6: a link error on an established client gives the parent exactly one
\* transport error naming the configured host, stops the client (link
\* stopped and released, resolution cancelled, halt set), issues no new
\* resolution, and every later transport_send / transport_send_const
\* returns false.
C6_LinkErrorFatal ==
  [][ /\ \A l \in LinkIds :
           (LinkError(l) /\ impl = l) =>
             /\ parent' = Append(parent, ErrorEvent("transport", "reset", stats))
             /\ impl' = NoLink
             /\ halt'
             /\ links'[l].st = "stopped"
             /\ Len(ops') = Len(ops)
             /\ \A j \in DOMAIN ops' : ops'[j] # "pending"
      /\ (HadLinkError /\ IsSend) => ~last'.ret
    ]_vars

\* C7: stop() is idempotent and destruction is the same teardown.  stop()
\* and ~Client both run stop_ and can be called in every state, so the
\* claim is about stop_ applied to every reachable state: applying it a
\* second time changes nothing, it changes nothing at all on a client that
\* already stopped (by the owner or from inside a completion callback), it
\* tells the parent nothing, and no link is ever stopped twice.
C7_StopIdempotent ==
  LET once == stop_(Cur)
      twice == stop_(once)
  IN  /\ twice = once
      /\ halt => once = Cur
      /\ once.halt /\ once.impl = NoLink
      /\ once.parent = parent
      /\ \A l \in LinkIds : links[l].stops <= 1 /\ twice.links[l].stops <= 1

\* a client whose link was stopped by stop_ and which is halted
C7_Witness ==
  /\ halt /\ impl = NoLink
  /\ \E l \in LinkIds : links[l].st = "stopped" /\ links[l].stops = 1
  /\ \E i \in DOMAIN ops : ops[i] = "cancelled"

\* C8: a link never holds more than send_queue_max_size packets that were
\* accepted and not yet written; a send is accepted exactly when the queue
\* is below the bound, a rejected send changes nothing, and only a write
\* completion shortens the queue of a live link.  With the default bound
\* and no drain the first 64 sends return true and the 65th returns false.
QueueBounded ==
  \A l \in LinkIds : Len(links[l].queue) <= config.send_queue_max_size

C8_BoundedQueue ==
  /\ QueueBounded
  /\ [][ /\ QueueBounded'
         /\ (IsSend /\ impl # NoLink) =>
              /\ last'.ret = (Len(links[impl].queue) < config.send_queue_max_size)
              /\ ~last'.ret => links' = links
              /\ (config = ClientConfig /\ links[impl].wire = <<>>)
                   => last'.ret = (links[impl].nacc < 64)
         /\ \A l \in LinkIds :
              (links[l].st = "live" /\ links'[l].st = "live"
                 /\ Len(links'[l].queue) < Len(links[l].queue)) => LinkWriteDone(l)
       ]_vars

\* the 65th send on a default configuration with nothing written yet
C8_Witness ==
  /\ config = ClientConfig
  /\ impl # NoLink
  /\ Len(links[impl].queue) = 64
  /\ links[impl].wire = <<>>
  /\ last.op = "transport_send" /\ ~last.ret

\* C9: the packets a live link has written, followed by those it still
\* queues, are exactly the packets whose send it accepted, in the order of
\* acceptance: nothing reordered, duplicated or inserted.
WireThenQueueIsAccepted ==
  \A l \in LinkIds :
    links[l].st = "live" =>
      links[l].wire \o links[l].queue = [k \in 1..links[l].nacc |-> k]

C9_OutboundFifo ==
  /\ WireThenQueueIsAccepted
  /\ [][ /\ WireThenQueueIsAccepted'
         /\ (last'.op \in SendOps /\ impl # NoLink) =>
              links'[impl].nacc = links[impl].nacc + (IF last'.ret THEN 1 ELSE 0) ]_vars

\* two accepted packets are on the wire and a third is queued behind them
C9_Witness ==
  \E l \in LinkIds :
    links[l].st = "live" /\ links[l].wire = <<1, 2>> /\ links[l].queue = <<3>>

\* C10: without a link, transport_send and transport_send_const return
\* false, tell the parent nothing and change no client state; they return
\* true only while a link is attached.
TrueOnlyWithLink ==
  (last.op \in SendOps /\ last.ret) => (impl # NoLink /\ links[impl].st = "live")

C10_SendWithoutLink ==
  /\ TrueOnlyWithLink
  /\ [][ /\ TrueOnlyWithLink'
         /\ (last'.op \in SendOps /\ impl = NoLink) =>
              (~last'.ret /\ UNCHANGED AllClientVars) ]_vars

\* a send on a stopped client has just returned false
C10_Witness ==
  /\ last.op = "transport_send_const" /\ ~last.ret
  /\ impl = NoLink /\ halt
  /\ \E l \in LinkIds : links[l].st = "stopped"


\* C11: at most one link is live at any time; one is live exactly when the
\* client is established, and it is the attached one; the attached link is
\* never replaced or dropped without having been stopped.
LiveLinks == {l \in LinkIds : links[l].st = "live"}
Established == impl # NoLink /\ ~halt

C11_SingleLink ==
  /\ LiveLinks = {}
  /\ [][ /\ Cardinality(LiveLinks') <= 1
         /\ Established' <=> Cardinality(LiveLinks') = 1
         /\ impl' # NoLink => LiveLinks' = {impl'}
         /\ (impl # NoLink /\ impl' # impl) => links'[impl].st = "stopped" ]_vars

\* C12: the packets the parent has received are exactly the packets the
\* link handed to tcp_read_handler, each once, with the same bytes and in
\* the same order; a hand-over adds one transport_recv and nothing else.
RecvLog == SelectSeq(parent, LAMBDA e : e.type = "recv")
Received == [k \in DOMAIN RecvLog |-> RecvLog[k].pkt]

ReceivedIsHanded ==
  \A l \in LinkIds : links[l].st = "live" => Received = links[l].handed

C12_InboundDelivery ==
  /\ ReceivedIsHanded
  /\ [][ /\ ReceivedIsHanded'
         /\ \A l \in LinkIds :
              (links[l].st = "live" /\ links'[l].st = "live"
                 /\ links'[l].nrecv = links[l].nrecv + 1) =>
                /\ Len(parent') = Len(parent) + 1
                /\ parent'[Len(parent')].type = "recv"
                /\ parent'[Len(parent')].pkt = FirstPacket(links[l].rbuf)
                /\ SubSeq(parent', 1, Len(parent)) = parent
                /\ UNCHANGED <<impl, halt, server_endpoint, stats, ops>>
       ]_vars

\* the parent has received an empty packet and then a different one
C12_Witness ==
  /\ Len(Received) >= 2
  /\ Received[1] = <<>>
  /\ Received[2] = <<0, 0>>
  /\ \E l \in LinkIds : links[l].st = "live" /\ links[l].handed = Received

\* C13: the free list of a link never holds more than free_list_max_size
\* buffers; a buffer that comes back is kept below the bound and discarded
\* at the bound; a buffer for a packet is taken from the free list whenever
\* it has one.  The default bound is 8.
FreeListBounded ==
  \A l \in LinkIds :
    /\ links[l].free <= config.free_list_max_size
    /\ links[l].st = "live" => links[l].fmax = config.free_list_max_size

C13_FreeListBound ==
  /\ FreeListBounded
  /\ ClientConfig.free_list_max_size = 8
  /\ [][ /\ FreeListBounded'
         /\ \A l \in LinkIds :
              (links[l].st = "live" /\ links'[l].st = "live") =>
                /\ links'[l].out = links[l].out - 1 =>
                     links'[l].free = IF links[l].free < config.free_list_max_size
                                        THEN links[l].free + 1 ELSE links[l].free
                /\ links'[l].out = links[l].out + 1 =>
                     links'[l].free = IF links[l].free > 0
                                        THEN links[l].free - 1 ELSE 0
                /\ links'[l].out = links[l].out => links'[l].free = links[l].free
       ]_vars

\* on the default configuration nine buffers were handed out and came back:
\* eight are kept
C13_Witness ==
  /\ config = ClientConfig
  /\ \E l \in LinkIds :
       /\ links[l].st = "live"
       /\ links[l].nrecv = 9
       /\ links[l].out = 0
       /\ links[l].free = 8

\* C14: whatever the peer framed and however the socket cut the bytes into
\* reads, the packets handed over are the first packets the peer sent, in
\* order and with the same bytes; the bytes not yet consumed are the frames
\* of the remaining packets; and when every byte is read and the read
\* buffer holds no complete packet, every packet has been handed over.
RECURSIVE FrameAll(_)
FrameAll(pkts) == IF pkts = <<>> THEN <<>> ELSE Frame(Head(pkts)) \o FrameAll(Tail(pkts))

C14_DeframingRoundTrip ==
  \A l \in LinkIds :
    links[l].st = "live" =>
      LET n == Len(links[l].handed)
      IN  /\ n <= Len(links[l].sent)
          /\ links[l].handed = SubSeq(links[l].sent, 1, n)
          /\ links[l].rbuf \o links[l].stream
               = FrameAll(SubSeq(links[l].sent, n + 1, Len(links[l].sent)))
          /\ (links[l].stream = <<>> /\ ~HasPacket(links[l].rbuf))
               => links[l].handed = links[l].sent

\* two packets were handed over after a read that ended inside a length
\* prefix: one byte of the next frame waits in the read buffer
C14_Witness ==
  \E l \in LinkIds :
    /\ links[l].st = "live"
    /\ links[l].handed = << <<0, 0>>, <<1>> >>
    /\ Len(links[l].sent) = 3
    /\ Len(links[l].rbuf) = 1

\* C15: under a fair execution context, start() on a fresh client is
\* followed by transport_connected or transport_error unless stop() (or the
\* destructor) cancels the resolution first; the completion of the
\* resolution tells the parent exactly one of the two; and every resolution
\* failure and socket failure met while the client is not stopped adds an
\* error to what the parent was told.
C15_NoErrorSwallowed ==
  /\ (ops = <<"pending">>) ~> (parent # <<>> \/ ops = <<"cancelled">>)
  /\ [][ /\ (ops = <<"pending">> /\ ops' = <<"done">>) =>
              /\ Len(parent') = Len(parent) + 1
              /\ parent'[Len(parent')].type \in {"connected", "error"}
         /\ \A i \in DOMAIN ops : \A error \in {"fail", "aborted"} :
              (~halt /\ DeliverResolveWith(i, error)) =>
                /\ NErrors' = NErrors + 1
                /\ parent'[Len(parent')].kind = "resolve"
         /\ \A l \in LinkIds :
              LinkError(l) =>
                /\ NErrors' = NErrors + 1
                /\ parent'[Len(parent')].kind = "transport"
       ]_vars

\* start() was followed by the connection, and the link's later failure
\* reached the parent
C15_Witness ==
  /\ ops = <<"done">>
  /\ Len(parent) = 2
  /\ parent[1].type = "connected"
  /\ parent[2].type = "error" /\ parent[2].kind = "transport" /\ parent[2].cause = "reset"

\* C16: whenever the parent is told of an error the client has already
\* stopped: halt is set, no link is attached, and a transport_send made from
\* inside the callback returns false; for a resolve error the RESOLVE_ERROR
\* counter already counts it.  The halt flag is set by stop_ only, together
\* with the cancellation: while it is set no resolution is outstanding and
\* no link is attached.
ResolveErrorsUpTo(k) ==
  Cardinality({j \in 1..k : parent[j].type = "error" /\ parent[j].kind = "resolve"})

C16_TeardownBeforeError ==
  /\ \A k \in DOMAIN parent :
       parent[k].type = "error" =>
         /\ parent[k].seen.halt
         /\ parent[k].seen.impl = NoLink
         /\ ~parent[k].seen.send
         /\ parent[k].seen.stats = ResolveErrorsUpTo(k)
  /\ halt => (impl = NoLink /\ \A i \in DOMAIN ops : ops[i] # "pending")

\* the parent was told of a link error after the connection, and of a
\* resolve error in another run
C16_Witness ==
  /\ \E k \in DOMAIN parent :
       /\ parent[k].kind = "transport"
       /\ \E j \in 1..(k - 1) : parent[j].type = "connected"
  /\ \E k \in DOMAIN parent :
       parent[k].kind = "resolve" /\ parent[k].seen.stats = 1

\* C17: when the parent is told of the connection the link is constructed,
\* attached and started; a packet of link l and a link error reach the
\* parent only after the connection of that link was announced.
C17_ConnectionOrdering ==
  \A k \in DOMAIN parent :
    /\ parent[k].type = "connected" =>
          /\ parent[k].seen.impl # NoLink
          /\ parent[k].seen.live
          /\ ~parent[k].seen.halt
    /\ parent[k].type = "recv" =>
          \E j \in 1..(k - 1) :
            parent[j].type = "connected" /\ parent[j].seen.impl = parent[k].pkt[1]
    /\ parent[k].kind = "transport" =>
          \E j \in 1..(k - 1) : parent[j].type = "connected"

\* connected, then a packet, then the link's error
C17_Witness ==
  /\ Len(parent) >= 3
  /\ parent[1].type = "connected"
  /\ parent[2].type = "recv"
  /\ parent[3].kind = "transport"

\* C18: stop() on a client with a link leaves that link stopped with an
\* empty queue and an empty free list, a stopped link never writes or changes again, no resolution
\* stays outstanding, and the handler of a cancelled resolution attaches no
\* link.
C18_StopDropsPending ==
  [][ /\ \A l \in LinkIds :
           (impl = l /\ (Stop \/ Destroy)) =>
             /\ links'[l].st = "stopped"
             /\ links'[l].queue = <<>>
             /\ links'[l].free = 0
      /\ \A l \in LinkIds : links[l].st = "stopped" => links'[l] = links[l]
      /\ (Stop \/ Destroy) => \A i \in DOMAIN ops' : ops'[i] # "pending"
      /\ \A i \in DOMAIN ops :
           (ops[i] = "cancelled" /\ DeliverResolve(i)) => (impl' = impl /\ links' = links)
    ]_vars

\* C19: every link is bound to the first endpoint of the resolution's
\* result, which is what server_endpoint holds from the first success on;
\* one link is bound per successful resolution, and none because of a
\* resolve failure or a link error.
FirstEndpoints == {Head(r) : r \in ResolveResults}
Constructed == {l \in LinkIds : links[l].st # "none"}

C20_ConstSendKeepsBuffer ==
  last.op = "transport_send_const" =>
    /\ last.buf = last.arg
    /\ last.arg # EmptyBuf
    /\ last.ret => (impl # NoLink /\ links[impl].queue # <<>>
                     /\ links[impl].queue[Len(links[impl].queue)] = last.arg)

\* the second packet was accepted from a const buffer, which still holds it
C20_Witness ==
  /\ last.op = "transport_send_const" /\ last.ret
  /\ last.arg = 2 /\ last.buf = 2
  /\ impl # NoLink /\ links[impl].queue = <<1, 2>>

====
